---- MODULE Spec2Model ----
(***************************************************************************)
(* A model of the three stages of the quiz token-importance pipeline:      *)
(*   extract_csv_data            (src/src/extract_questions.py)            *)
(*   AttentionWeightCalculator   (src/src/calculate_weights.py)            *)
(*   convert_to_csv              (src/src/convert_to_csv.py)               *)
(*                                                                         *)
(* Python values are represented as follows.                               *)
(*   str    a sequence of one-character strings, <<"a", "|", "b">>          *)
(*   text   the oracle's reply, a sequence of lexemes, each lexeme a str;   *)
(*          strip, startswith, find, rfind and slicing act on whole        *)
(*          lexemes (a brace, a fence, a string literal, a number, ...)    *)
(*   JSON   a record tagged by kind: num, str, list, obj, null             *)
(*   None   the record [kind |-> "None"]                                   *)
(* The file system is taken to work: a write that is reached succeeds.     *)
(***************************************************************************)
EXTENDS Integers, Sequences, FiniteSets, TLC

\* ------------------------------------------------------------------ bounds
\* Longest input batch handed to process_all_quiz_data.
MaxBatch == 2
\* Most rows of the Selector's source table.
MaxRows == 3
\* Longest target_data_ids list.
MaxTargets == 3

\* ------------------------------------------------------------ str helpers
Digits == <<"0", "1", "2", "3", "4", "5", "6", "7", "8", "9">>

IsDigit(c) == \E d \in 1..10 : Digits[d] = c

DigitValue(c) == (CHOOSE d \in 1..10 : Digits[d] = c) - 1

\* str(n) for an int n >= 0.
RECURSIVE IntToStr(_)
IntToStr(n) ==
  IF n < 10 THEN <<Digits[n + 1]>>
  ELSE IntToStr(n \div 10) \o <<Digits[(n % 10) + 1]>>

\* int(s) for a str of digits.
RECURSIVE StrToInt(_)
StrToInt(s) ==
  IF Len(s) = 0 THEN 0
  ELSE 10 * StrToInt(SubSeq(s, 1, Len(s) - 1)) + DigitValue(s[Len(s)])

\* s.count(c)
Count(s, c) == Cardinality({k \in DOMAIN s : s[k] = c})

\* sep.join(parts), parts a sequence of str.
RECURSIVE Join(_, _)
Join(sep, parts) ==
  IF Len(parts) = 0 THEN <<>>
  ELSE IF Len(parts) = 1 THEN parts[1]
  ELSE parts[1] \o sep \o Join(sep, Tail(parts))

\* s.find(x): 0-based index of the first occurrence, -1 when there is none.
Find(s, x) ==
  IF \E k \in DOMAIN s : s[k] = x
  THEN (CHOOSE k \in DOMAIN s : s[k] = x /\ \A j \in 1..(k - 1) : s[j] # x) - 1
  ELSE -1

\* s.rfind(x): 0-based index of the last occurrence, -1 when there is none.
RFind(s, x) ==
  IF \E k \in DOMAIN s : s[k] = x
  THEN (CHOOSE k \in DOMAIN s : s[k] = x /\ \A j \in (k + 1)..Len(s) : s[j] # x) - 1
  ELSE -1

\* Python's s[a:b]: a negative index counts from the end, both are clamped.
SliceIndex(s, a) ==
  IF a < 0 THEN (IF Len(s) + a < 0 THEN 0 ELSE Len(s) + a)
  ELSE (IF a > Len(s) THEN Len(s) ELSE a)

Slice(s, a, b) == SubSeq(s, SliceIndex(s, a) + 1, SliceIndex(s, b))

\* ---------------------------------------------------------------- lexemes
LBRACE == <<"{">>
RBRACE == <<"}">>
LBRACK == <<"[">>
RBRACK == <<"]">>
COLON == <<":">>
COMMA == <<",">>
NEWLINE == <<"\n">>
SPACE == <<" ">>
\* The backquote character (a TLA+ string cannot hold it) and the fence of three.
BQ == "bq"
FENCE == <<BQ, BQ, BQ>>
JSONTAG == <<"j", "s", "o", "n">>
NULLLIT == <<"n", "u", "l", "l">>

K_token_weights == <<"t","o","k","e","n","_","w","e","i","g","h","t","s">>
K_total_weight == <<"t","o","t","a","l","_","w","e","i","g","h","t">>
K_token == <<"t","o","k","e","n">>
K_weight == <<"w","e","i","g","h","t">>

IsSpace(lex) == lex \in {NEWLINE, SPACE}

\* The JSON string literal of a str (no character of it needs an escape).
Quote(s) == <<"\"">> \o s \o <<"\"">>

IsStringLit(lex) == Len(lex) >= 2 /\ lex[1] = "\"" /\ lex[Len(lex)] = "\""

Unquote(lex) == SubSeq(lex, 2, Len(lex) - 1)

\* A number literal: digits, optionally a point and more digits.
IsNumberLit(lex) ==
  /\ Len(lex) >= 1
  /\ \A k \in DOMAIN lex : IsDigit(lex[k]) \/ lex[k] = "."
  /\ Count(lex, ".") <= 1
  /\ IsDigit(lex[1]) /\ IsDigit(lex[Len(lex)])

\* ------------------------------------------------------------ JSON values
JNull == [kind |-> "null"]
JStr(s) == [kind |-> "str", s |-> s]
JList(items) == [kind |-> "list", items |-> items]
JObj(members) == [kind |-> "obj", members |-> members]

\* A number is kept as its integer part and its fraction digits without
\* trailing zeros, so 0.1 and 0.10 are one value.
RECURSIVE DropTrailingZeros(_)
DropTrailingZeros(s) ==
  IF Len(s) > 0 /\ s[Len(s)] = "0" THEN DropTrailingZeros(SubSeq(s, 1, Len(s) - 1))
  ELSE s

JNum(ip, fp) == [kind |-> "num", ip |-> ip, fp |-> DropTrailingZeros(fp)]

NumberValue(lex) ==
  LET dot == Find(lex, ".")
  IN IF dot = -1 THEN JNum(StrToInt(lex), <<>>)
     ELSE JNum(StrToInt(SubSeq(lex, 1, dot)), SubSeq(lex, dot + 2, Len(lex)))

\* dict: a sequence of <<key, value>> pairs with distinct keys, in insertion
\* order; a repeated key keeps its place and takes the later value.
HasKey(members, key) == \E k \in DOMAIN members : members[k][1] = key

GetKey(members, key) == members[CHOOSE k \in DOMAIN members : members[k][1] = key][2]

SetKey(members, key, val) ==
  IF HasKey(members, key)
  THEN [k \in DOMAIN members |->
          IF members[k][1] = key THEN <<key, val>> ELSE members[k]]
  ELSE Append(members, <<key, val>>)

\* -------------------------------------------------------------- json.loads
RECURSIVE SkipSpace(_)
SkipSpace(s) == IF Len(s) > 0 /\ IsSpace(Head(s)) THEN SkipSpace(Tail(s)) ELSE s

ParseFail == [ok |-> FALSE]
ParseOk(val, rest) == [ok |-> TRUE, val |-> val, rest |-> rest]

RECURSIVE ParseValue(_), ParseMembers(_, _), ParseElements(_, _)

\* One JSON value at the front of s (leading white space skipped).
ParseValue(s) ==
  LET t == SkipSpace(s)
  IN IF Len(t) = 0 THEN ParseFail
     ELSE IF Head(t) = LBRACE THEN
       LET u == SkipSpace(Tail(t))
       IN IF Len(u) > 0 /\ Head(u) = RBRACE THEN ParseOk(JObj(<<>>), Tail(u))
          ELSE ParseMembers(u, <<>>)
     ELSE IF Head(t) = LBRACK THEN
       LET u == SkipSpace(Tail(t))
       IN IF Len(u) > 0 /\ Head(u) = RBRACK THEN ParseOk(JList(<<>>), Tail(u))
          ELSE ParseElements(u, <<>>)
     ELSE IF IsStringLit(Head(t)) THEN ParseOk(JStr(Unquote(Head(t))), Tail(t))
     ELSE IF IsNumberLit(Head(t)) THEN ParseOk(NumberValue(Head(t)), Tail(t))
     ELSE IF Head(t) = NULLLIT THEN ParseOk(JNull, Tail(t))
     ELSE ParseFail

\* key : value , ... } with the members read so far in acc.
ParseMembers(s, acc) ==
  LET t == SkipSpace(s)
  IN IF Len(t) = 0 \/ ~IsStringLit(Head(t)) THEN ParseFail
     ELSE LET u == SkipSpace(Tail(t))
          IN IF Len(u) = 0 \/ Head(u) # COLON THEN ParseFail
             ELSE LET v == ParseValue(Tail(u))
                  IN IF ~v.ok THEN ParseFail
                     ELSE LET w == SkipSpace(v.rest)
                              now == SetKey(acc, Unquote(Head(t)), v.val)
                          IN IF Len(w) = 0 THEN ParseFail
                             ELSE IF Head(w) = RBRACE THEN ParseOk(JObj(now), Tail(w))
                             ELSE IF Head(w) = COMMA THEN ParseMembers(Tail(w), now)
                             ELSE ParseFail

\* value , ... ] with the elements read so far in acc.
ParseElements(s, acc) ==
  LET v == ParseValue(s)
  IN IF ~v.ok THEN ParseFail
     ELSE LET w == SkipSpace(v.rest)
              now == Append(acc, v.val)
          IN IF Len(w) = 0 THEN ParseFail
             ELSE IF Head(w) = RBRACK THEN ParseOk(JList(now), Tail(w))
             ELSE IF Head(w) = COMMA THEN ParseElements(Tail(w), now)
             ELSE ParseFail

\* json.loads(text): the value, or ok = FALSE for json.JSONDecodeError
\* (no value, or anything but white space after it).
json_loads(text) ==
  LET v == ParseValue(text)
  IN IF v.ok /\ Len(SkipSpace(v.rest)) = 0 THEN [ok |-> TRUE, val |-> v.val]
     ELSE ParseFail

\* ------------------------------------------------------- the Annotator
None == [kind |-> "None"]


MODEL == <<"g", "p", "t", "-", "4", ".", "1">>

\* response_text.strip(): white space removed at both ends.
RECURSIVE StripRight(_)
StripRight(text) ==
  IF Len(text) > 0 /\ IsSpace(text[Len(text)])
  THEN StripRight(SubSeq(text, 1, Len(text) - 1))
  ELSE text

Strip(text) == StripRight(SkipSpace(text))

\* response_text.startswith('```json')
StartsWithJsonFence(text) == Len(text) >= 2 /\ text[1] = FENCE /\ text[2] = JSONTAG

\* where the JSON content ends: response_text.rfind('}') + 1
JsonEndNoRfind(text) == Find(text, RBRACE) + 1

JsonEnd(text) == RFind(text, RBRACE) + 1

\* json_content: the part from the first '{' to the last '}' of a reply that
\* starts with the json fence, the whole reply otherwise.
JsonContent(text) ==
  IF StartsWithJsonFence(text)
  THEN Slice(text, Find(text, LBRACE), JsonEnd(text))
  ELSE text

\* weights_data[key] raises (KeyError, or TypeError when weights_data is no
\* dict) unless weights_data is a dict holding the key.
Subscriptable(val, key) == val.kind = "obj" /\ HasKey(val.members, key)

\* calculate_attention_weights: the result dict, or None when the call raises,
\* the content is no JSON, or a key is missing.  oracle is what
\* client.chat.completions.create does: [raised |-> TRUE], or
\* [raised |-> FALSE, text |-> the content].
calculate_attention_weights(quiz_item, oracle) ==
  IF oracle.raised THEN None
  ELSE
    LET response_text == Strip(oracle.text)
        weights_data == json_loads(JsonContent(response_text))
    IN IF ~weights_data.ok THEN None
       ELSE IF ~Subscriptable(weights_data.val, K_token_weights) THEN None
       ELSE IF ~Subscriptable(weights_data.val, K_total_weight) THEN None
       ELSE [kind |-> "dict",
             data_id |-> quiz_item.data_id,
             question |-> quiz_item.question,
             answer |-> quiz_item.answer,
             tokens |-> quiz_item.tokens,
             token_count |-> quiz_item.token_count,
             attention_weights |-> GetKey(weights_data.val.members, K_token_weights),
             total_weight |-> GetKey(weights_data.val.members, K_total_weight),
             model |-> MODEL,
             model_response |-> response_text]

\* "if result:" guarding results.append(result): None is false, a dict with
\* entries is true.  TruthyAlways appends whatever was returned.
TruthyAlways(v) == TRUE

Truthy(v) == v.kind # "None"

\* enumerate(quiz_data, 1): the loop moves on to the next record whatever the
\* call returned.
AdvanceOnSuccess(i, result) == IF Truthy(result) THEN i + 1 ELSE i

Advance(i, result) == i + 1

\* "if i < total_items:" -- whether the loop sleeps after record i.
SleepsAfterAlways(i, total_items) == i <= total_items

SleepsAfter(i, total_items) == i < total_items

\* ------------------------------------------------------------ the inputs
QuizItem(id, tokens, count) ==
  [data_id |-> id, question |-> <<"Q">>, answer |-> <<"A">>,
   tokens |-> tokens, token_count |-> count]

\* The records a batch is drawn from; a batch may repeat one.
QuizPool ==
  { QuizItem(7, <<"|", "a", "|", "b", "|">>, 2),
    QuizItem(3, <<"|", "c", "|">>, 1) }

RECURSIVE SeqsUpTo(_, _)
SeqsUpTo(S, n) ==
  IF n = 0 THEN {<<>>}
  ELSE LET shorter == SeqsUpTo(S, n - 1)
       IN shorter \cup {Append(q, e) : q \in {r \in shorter : Len(r) = n - 1}, e \in S}

Batches == SeqsUpTo(QuizPool, MaxBatch)

W010 == <<"0", ".", "1", "0">>
W090 == <<"0", ".", "9", "0">>
W100 == <<"1", ".", "0", "0">>

Entry(token, weight) ==
  <<LBRACE, Quote(K_token), COLON, Quote(token), COMMA,
    Quote(K_weight), COLON, weight, RBRACE>>

WeightsMember(value) == <<Quote(K_token_weights), COLON>> \o value
TotalMember(value) == <<Quote(K_total_weight), COLON>> \o value

Object2(m1, m2) == <<LBRACE>> \o m1 \o <<COMMA, NEWLINE>> \o m2 \o <<RBRACE>>
Object1(m1) == <<LBRACE>> \o m1 \o <<RBRACE>>

\* Payloads of the expected shape.
P_two ==
  Object2(WeightsMember(<<LBRACK>> \o Entry(<<"a">>, W010) \o <<COMMA>>
                          \o Entry(<<"b">>, W090) \o <<RBRACK>>),
          TotalMember(<<W100>>))
P_one ==
  Object2(WeightsMember(<<LBRACK>> \o Entry(<<"c">>, W100) \o <<RBRACK>>),
          TotalMember(<<W100>>))
P_pipe ==
  Object2(WeightsMember(<<LBRACK>> \o Entry(<<"a", "|", "b">>, W100) \o <<RBRACK>>),
          TotalMember(<<W100>>))
GoodPayloads == {P_two, P_one, P_pipe}

\* JSON that lacks a key, or is not of the expected shape.
P_noTotal == Object1(WeightsMember(<<LBRACK>> \o Entry(<<"c">>, W100) \o <<RBRACK>>))
P_noWeights == Object1(TotalMember(<<W100>>))
P_badShape == Object2(WeightsMember(<<Quote(<<"x">>)>>), TotalMember(<<NULLLIT>>))
P_badEntry ==
  Object2(WeightsMember(<<LBRACK, LBRACE, Quote(K_token), COLON, Quote(<<"c">>),
                          RBRACE, RBRACK>>),
          TotalMember(<<Quote(<<"1">>)>>))
P_array == <<LBRACK, <<"1">>, RBRACK>>

\* Text that is no JSON.
Prose == <<<<"S", "o", "r", "r", "y">>>>

FenceJson(body) == <<FENCE, JSONTAG, NEWLINE>> \o body \o <<NEWLINE, FENCE>>
FencePlain(body) == <<FENCE, NEWLINE>> \o body \o <<NEWLINE, FENCE>>

Texts ==
  GoodPayloads
    \cup {P_noTotal, P_noWeights, P_badShape, P_badEntry, P_array, Prose}
    \cup {FenceJson(P_two), FenceJson(P_one), FenceJson(Prose)}
    \cup {FencePlain(P_two)}
    \cup {Prose \o <<NEWLINE>> \o FenceJson(P_two)}
    \cup {FenceJson(P_two) \o <<NEWLINE>> \o Prose \o <<LBRACE, RBRACE>>}
    \cup {<<NEWLINE, SPACE>> \o P_two \o <<NEWLINE>>}

OracleOutcomes == {[raised |-> TRUE]} \cup {[raised |-> FALSE, text |-> t] : t \in Texts}

\* ------------------------------------------------------- the Flattener
HEADER ==
  << <<"d","a","t","a","_","i","d">>, <<"q","u","e","s","t","i","o","n">>,
     <<"a","n","s","w","e","r">>, <<"t","o","k","e","n","s">>,
     <<"w","e","i","g","h","t","s">>,
     <<"t","o","k","e","n","_","c","o","u","n","t">> >>

RECURSIVE PadZeros(_, _)
PadZeros(s, width) == IF Len(s) >= width THEN s ELSE PadZeros(Append(s, "0"), width)

\* f"{weight:.6f}" of a number with at most six fraction digits.
Format6(num) == IntToStr(num.ip) \o <<".">> \o PadZeros(num.fp, 6)

\* "for token_data in item['attention_weights']" iterates a list, the
\* characters of a str or the keys of a dict; anything else raises.
Iterable(val) == val.kind \in {"list", "str", "obj"}

Elements(val) ==
  IF val.kind = "list" THEN val.items
  ELSE IF val.kind = "str" THEN [k \in DOMAIN val.s |-> JStr(<<val.s[k]>>)]
  ELSE [k \in DOMAIN val.members |-> JStr(val.members[k][1])]

\* token_data['token'] and f"{token_data['weight']:.6f}" both succeed.
EntryReadable(token_data) ==
  /\ Subscriptable(token_data, K_token)
  /\ Subscriptable(token_data, K_weight)
  /\ GetKey(token_data.members, K_weight).kind = "num"

\* One record's row of six fields, or ok = FALSE when building it raises
\* (an entry that cannot be read, or "|".join of a token that is no str).
FlatRow(item) ==
  LET aw == item.attention_weights
  IN IF ~Iterable(aw) THEN [ok |-> FALSE]
     ELSE
       LET entries == Elements(aw)
       IN IF \E k \in DOMAIN entries : ~EntryReadable(entries[k]) THEN [ok |-> FALSE]
          ELSE
            LET tokens == [k \in DOMAIN entries |-> GetKey(entries[k].members, K_token)]
                weights == [k \in DOMAIN entries |->
                              Format6(GetKey(entries[k].members, K_weight))]
            IN IF \E k \in DOMAIN tokens : tokens[k].kind # "str" THEN [ok |-> FALSE]
               ELSE
                 LET tokens_str ==
                       <<"|">> \o Join(<<"|">>, [k \in DOMAIN tokens |-> tokens[k].s])
                         \o <<"|">>
                     weights_str == <<"|">> \o Join(<<"|">>, weights) \o <<"|">>
                 IN [ok |-> TRUE,
                     row |-> <<IntToStr(item.data_id), item.question, item.answer,
                               tokens_str, weights_str, IntToStr(item.token_count)>>]

\* The rows written for data, in order, up to the first record that raises.
RECURSIVE WriteRows(_)
WriteRows(data) ==
  IF Len(data) = 0 THEN [ok |-> TRUE, rows |-> <<>>]
  ELSE LET first == FlatRow(Head(data))
       IN IF ~first.ok THEN [ok |-> FALSE, rows |-> <<>>]
          ELSE LET rest == WriteRows(Tail(data))
               IN [ok |-> rest.ok, rows |-> <<first.row>> \o rest.rows]

\* convert_to_csv: the output file (opened for writing only after the input
\* was loaded) and whether an exception ended the call.
convert_to_csv(input_json, header) ==
  IF ~input_json.exists THEN [exists |-> FALSE, rows |-> <<>>, error |-> TRUE]
  ELSE LET body == WriteRows(input_json.data)
       IN [exists |-> TRUE,
           rows |-> (IF header THEN <<HEADER>> ELSE <<>>) \o body.rows,
           error |-> ~body.ok]

\* verify_format: the verdict printed for the first data row, "none" when
\* there is no data row.
verify_format(rows, header) ==
  LET data_rows == IF header THEN Tail(rows) ELSE rows
  IN IF Len(data_rows) = 0 THEN "none"
     ELSE LET sample_row == data_rows[1]
              tokens_count == Count(sample_row[4], "|") - 1
              weights_count == Count(sample_row[5], "|") - 1
              declared_count == StrToInt(sample_row[6])
          IN IF tokens_count = weights_count /\ weights_count = declared_count
             THEN "OK" ELSE "NG"

\* -------------------------------------------------------- the Selector
required_columns == <<"data_id", "question", "answer", "tokens", "token_count">>

Range(f) == {f[k] : k \in DOMAIN f}

\* missing_columns: the required columns the table lacks, in required order.
\* MissingColumnsFirstOnly stops at the first one.
MissingColumnsFirstOnly(cols) ==
  LET all == SelectSeq(required_columns, LAMBDA c : c \notin cols)
  IN IF Len(all) = 0 THEN all ELSE <<all[1]>>

missing_columns_of(cols) == SelectSeq(required_columns, LAMBDA c : c \notin cols)

\* "if target_data_ids:" -- None and the empty list are both false.
TargetsGiven(target) == target.given /\ Len(target.ids) > 0

\* pd.Categorical(..., categories=ids) raises ValueError unless the
\* categories are unique.
CategoriesUnique(ids) == \A a, b \in DOMAIN ids : ids[a] = ids[b] => a = b

\* df[df['data_id'].isin(ids)]
Filtered(table, ids) == SelectSeq(table, LAMBDA r : r.data_id \in Range(ids))

\* The category code of an identifier: its place in ids.
Code(ids, id) == CHOOSE k \in DOMAIN ids : ids[k] = id

IsPermutation(a, b) ==
  /\ Len(a) = Len(b)
  /\ \E f \in [DOMAIN a -> DOMAIN b] :
       /\ \A j, k \in DOMAIN a : f[j] = f[k] => j = k
       /\ \A k \in DOMAIN a : a[k] = b[f[k]]

SortKey(ids, r) == Code(ids, r.data_id)

\* sort_values('data_id') on the categorical column: every arrangement of the
\* filtered rows by ascending category code (the sort is not stable).
SortedArrangements(filtered, ids) ==
  { s \in [DOMAIN filtered -> Range(filtered)] :
      /\ IsPermutation(s, filtered)
      /\ \A j, k \in DOMAIN s : j < k => SortKey(ids, s[j]) <= SortKey(ids, s[k]) }

\* missing_ids: the requested identifiers that no filtered row has.
missing_ids_of(filtered, ids) ==
  SelectSeq(ids, LAMBDA id : id \notin {filtered[k].data_id : k \in DOMAIN filtered})

\* Inputs of the Selector.
SourceIds == {1, 2}
TargetIds == {1, 2, 9}

Tables ==
  { [k \in DOMAIN f |-> [data_id |-> f[k], question |-> k]] :
      f \in SeqsUpTo(SourceIds, MaxRows) }

TargetLists ==
  {[given |-> FALSE, ids |-> <<>>]}
    \cup {[given |-> TRUE, ids |-> l] : l \in SeqsUpTo(TargetIds, MaxTargets)}

RequiredSet == Range(required_columns)

\* Column sets: all required (with or without a further column), or one or
\* two of them absent.
ColumnSets ==
  {RequiredSet, RequiredSet \cup {"category"}}
    \cup {RequiredSet \ m : m \in {n \in SUBSET RequiredSet : Cardinality(n) \in {1, 2}}}

\* ------------------------------------------------------------- the state
VARIABLES
  quiz_data,      \* the input batch of process_all_quiz_data
  idx,            \* i: how many records the loop has taken
  results,        \* the results list
  pc,             \* where process_all_quiz_data is
  trace,          \* the calls, sleeps and file writes so far, in order
  responses,      \* what the oracle did at each call
  returned,       \* what calculate_attention_weights returned at each call
  output_file,    \* the Annotator's JSON file
  csv_pc,         \* where convert_to_csv is
  with_header,    \* convert_to_csv's with_header
  csv_file,       \* the Flattener's output file
  csv_error,      \* whether convert_to_csv ended in its except branch
  csv_check,      \* verify_format's verdict
  sel_pc,         \* where extract_csv_data is
  input_state,    \* the Selector's input file: table, missing or empty
  columns,        \* the source table's columns
  table,          \* the source table's rows
  target_data_ids,\* the Selector's target_data_ids
  output_format,  \* the Selector's output_format
  sel_file,       \* the Selector's output file
  sel_warning,    \* the identifiers the warning names (none: no warning)
  sel_error       \* the error extract_csv_data printed

annVars ==
  <<quiz_data, idx, results, pc, trace, responses, returned, output_file,
    csv_pc, with_header, csv_file, csv_error, csv_check>>

selVars ==
  <<sel_pc, input_state, columns, table, target_data_ids, output_format,
    sel_file, sel_warning, sel_error>>

vars == <<annVars, selVars>>

NoFile == [exists |-> FALSE]
NoError == [kind |-> "none"]

\* The Annotator and the Flattener before process_all_quiz_data starts.
AnnIdle ==
  /\ quiz_data = <<>> /\ idx = 0 /\ results = <<>> /\ pc = "idle"
  /\ trace = <<>> /\ responses = <<>> /\ returned = <<>>
  /\ output_file = NoFile
  /\ csv_pc = "idle" /\ with_header = TRUE /\ csv_file = NoFile
  /\ csv_error = FALSE /\ csv_check = "none"

SelIdle ==
  /\ sel_pc = "idle" /\ input_state = "table" /\ columns = RequiredSet
  /\ table = <<>> /\ target_data_ids = [given |-> FALSE, ids |-> <<>>]
  /\ output_format = "json" /\ sel_file = NoFile /\ sel_warning = <<>>
  /\ sel_error = NoError

\* process_all_quiz_data is entered with a batch; nothing is written yet.
Init ==
  /\ quiz_data \in Batches
  /\ idx = 0 /\ results = <<>>
  /\ pc = IF Len(quiz_data) = 0 THEN "save" ELSE "call"
  /\ trace = <<>> /\ responses = <<>> /\ returned = <<>>
  /\ output_file = NoFile
  /\ csv_pc = "idle" /\ with_header = TRUE /\ csv_file = NoFile
  /\ csv_error = FALSE /\ csv_check = "none"
  /\ SelIdle

flatVars == <<csv_pc, with_header, csv_file, csv_error, csv_check>>

Event(ev, k) == [ev |-> ev, k |-> k]

\* ProcessRecord with the file rewritten after every record.
ProcessRecordSavingEach ==
  /\ pc = "call"
  /\ idx < Len(quiz_data)
  /\ \E oracle \in OracleOutcomes :
       LET i == idx + 1
           result == calculate_attention_weights(quiz_data[i], oracle)
           now == IF Truthy(result) THEN Append(results, result) ELSE results
       IN /\ idx' = Advance(idx, result)
          /\ responses' = Append(responses, oracle)
          /\ returned' = Append(returned, result)
          /\ results' = now
          /\ output_file' = [exists |-> TRUE, data |-> now]
          /\ trace' = trace \o <<Event("call", i), Event("write", i)>>
          /\ pc' = IF SleepsAfter(i, Len(quiz_data)) THEN "sleep" ELSE "save"
  /\ UNCHANGED <<quiz_data, flatVars, selVars>>

\* One turn of the loop: the call for record i, the append of an accepted
\* result, and the test that decides whether a sleep follows.
ProcessRecord ==
  /\ pc = "call"
  /\ idx < Len(quiz_data)
  /\ \E oracle \in OracleOutcomes :
       LET i == idx + 1
           result == calculate_attention_weights(quiz_data[i], oracle)
       IN /\ idx' = Advance(idx, result)
          /\ responses' = Append(responses, oracle)
          /\ returned' = Append(returned, result)
          /\ results' = IF Truthy(result) THEN Append(results, result) ELSE results
          /\ trace' = Append(trace, Event("call", i))
          /\ pc' = IF SleepsAfter(i, Len(quiz_data)) THEN "sleep" ELSE "save"
  /\ UNCHANGED <<quiz_data, output_file, flatVars, selVars>>

\* time.sleep(delay)
Sleep ==
  /\ pc = "sleep"
  /\ trace' = Append(trace, Event("sleep", idx))
  /\ pc' = "call"
  /\ UNCHANGED <<quiz_data, idx, results, responses, returned, output_file,
                 flatVars, selVars>>

\* _save_results(results, output_file), after the loop.
SaveResults ==
  /\ pc = "save"
  /\ output_file' = [exists |-> TRUE, data |-> results]
  /\ trace' = Append(trace, Event("write", idx))
  /\ pc' = "done"
  /\ UNCHANGED <<quiz_data, idx, results, responses, returned, flatVars, selVars>>

\* The process is stopped inside the loop; nothing catches it.
Interrupt ==
  /\ pc \in {"call", "sleep"}
  /\ pc' = "interrupted"
  /\ UNCHANGED <<quiz_data, idx, results, trace, responses, returned,
                 output_file, flatVars, selVars>>

\* convert_to_csv on the Annotator's file, once the Annotator has ended.
ConvertToCsv ==
  /\ pc \in {"done", "interrupted"}
  /\ csv_pc = "idle"
  /\ \E header \in BOOLEAN :
       LET out == convert_to_csv(output_file, header)
       IN /\ with_header' = header
          /\ csv_file' = IF out.exists THEN [exists |-> TRUE, rows |-> out.rows]
                         ELSE NoFile
          /\ csv_error' = out.error
          /\ csv_check' = IF out.error THEN "none"
                          ELSE verify_format(out.rows, header)
  /\ csv_pc' = "done"
  /\ UNCHANGED <<quiz_data, idx, results, pc, trace, responses, returned,
                 output_file, selVars>>

Next == ProcessRecord \/ Sleep \/ SaveResults \/ Interrupt \/ ConvertToCsv

Spec == Init /\ [][Next]_vars

\* extract_csv_data, from reading the input to writing the output.
ExtractCsvData ==
  /\ sel_pc = "start"
  /\ sel_pc' = "done"
  /\ IF input_state = "missing"
     THEN /\ sel_error' = [kind |-> "FileNotFoundError"]
          /\ UNCHANGED <<sel_file, sel_warning>>
     ELSE IF input_state = "empty"
     THEN /\ sel_error' = [kind |-> "EmptyDataError"]
          /\ UNCHANGED <<sel_file, sel_warning>>
     ELSE IF Len(missing_columns_of(columns)) > 0
     THEN /\ sel_error' = [kind |-> "ValueError",
                           missing_columns |-> missing_columns_of(columns)]
          /\ UNCHANGED <<sel_file, sel_warning>>
     ELSE IF TargetsGiven(target_data_ids)
     THEN LET ids == target_data_ids.ids
              filtered_df == Filtered(table, ids)
          IN IF ~CategoriesUnique(ids)
             THEN /\ sel_error' = [kind |-> "ValueError", categories |-> ids]
                  /\ UNCHANGED <<sel_file, sel_warning>>
             ELSE /\ \E sorted \in SortedArrangements(filtered_df, ids) :
                       sel_file' = [exists |-> TRUE, format |-> output_format,
                                    rows |-> sorted]
                  /\ sel_warning' = missing_ids_of(filtered_df, ids)
                  /\ sel_error' = NoError
     ELSE /\ sel_file' = [exists |-> TRUE, format |-> output_format, rows |-> table]
          /\ sel_warning' = <<>>
          /\ sel_error' = NoError
  /\ UNCHANGED <<input_state, columns, table, target_data_ids, output_format, annVars>>

SelInit ==
  /\ sel_pc = "start"
  /\ input_state \in {"table", "missing", "empty"}
  /\ columns \in (IF input_state = "table" THEN ColumnSets ELSE {{}})
  /\ table \in (IF input_state = "table" THEN Tables ELSE {<<>>})
  /\ target_data_ids \in TargetLists
  /\ output_format \in {"json", "csv"}
  /\ sel_file = NoFile /\ sel_warning = <<>> /\ sel_error = NoError
  /\ AnnIdle

SelNext == ExtractCsvData

SpecSelector == SelInit /\ [][SelNext]_vars

\* ----------------------------------------------------- Selector claims
\* The Selector has run on a readable table that has every required column.
SelectorRan == sel_pc = "done" /\ input_state = "table" /\ RequiredSet \subseteq columns

IdsOf(rws) == [k \in DOMAIN rws |-> rws[k].data_id]

SourceIdSet == {table[k].data_id : k \in DOMAIN table}

\* The target list filtered to the identifiers the source has / lacks.
PresentTargets == SelectSeq(target_data_ids.ids, LAMBDA id : id \in SourceIdSet)
AbsentTargets == SelectSeq(target_data_ids.ids, LAMBDA id : id \notin SourceIdSet)

\* C1: for any list L passed as target_data_ids (empty, with repeats, over a
\* source with repeated data_id values), the data_id sequence of the written
\* output is L filtered to the identifiers the source has, in L's order.
C1_SelectorOrdering ==
  (SelectorRan /\ target_data_ids.given) =>
    /\ sel_file.exists
    /\ IdsOf(sel_file.rows) = PresentTargets

\* C6: when a required column is absent from the source table the call ends
\* with an error naming exactly the absent required columns, before any
\* selection, and no output file is written, whatever the output format.
C6_SchemaError ==
  (sel_pc = "done" /\ input_state = "table" /\ ~(RequiredSet \subseteq columns)) =>
    /\ sel_error.kind = "ValueError"
    /\ "missing_columns" \in DOMAIN sel_error
    /\ Range(sel_error.missing_columns) = RequiredSet \ columns
    /\ Len(sel_error.missing_columns) = Cardinality(RequiredSet \ columns)
    /\ sel_file = NoFile
    /\ sel_warning = <<>>

\* C6 witness: two required columns are absent, identifiers were requested
\* from a table with rows, CSV output was asked for, and the call has ended.
C6_Witness ==
  /\ sel_pc = "done"
  /\ columns = RequiredSet \ {"tokens", "token_count"}
  /\ Len(table) > 0
  /\ TargetsGiven(target_data_ids)
  /\ output_format = "csv"
  /\ sel_error.kind = "ValueError"

\* C9: for any target list L and source table, the warning names exactly the
\* elements of L absent from the source, the run is not aborted, the output
\* is written, and it has len(L) minus the number of absent identifiers
\* entries.
C9_MissingIdentifiers ==
  (SelectorRan /\ target_data_ids.given) =>
    /\ sel_warning = AbsentTargets
    /\ sel_error = NoError
    /\ sel_file.exists
    /\ Len(sel_file.rows) = Len(target_data_ids.ids) - Len(AbsentTargets)

\* ---------------------------------------------------- Annotator claims
total_items == Len(quiz_data)

CallsOf(tr) == SelectSeq(tr, LAMBDA e : e.ev = "call")
WritesOf(tr) == SelectSeq(tr, LAMBDA e : e.ev = "write")
SleepPositions == {p \in DOMAIN trace : trace[p].ev = "sleep"}

\* The input positions whose call returned a result, in input order.
AcceptedPositions ==
  SelectSeq([k \in 1..Len(returned) |-> k], LAMBDA k : returned[k] # None)

DistinctIds == \A j, k \in DOMAIN quiz_data :
                 quiz_data[j].data_id = quiz_data[k].data_id => j = k

\* C2: every record of the batch is attempted; a call that raises, text that
\* is no JSON and JSON lacking token_weights or total_weight each reject the
\* record; the saved list is exactly the accepted records in input order; a
\* single failure at record k leaves n-1 entries, none of them record k's.
C2_RejectionIsolation ==
  pc = "done" =>
    /\ {e.k : e \in Range(CallsOf(trace))} = 1..total_items
    /\ Len(returned) = total_items
    /\ \A k \in DOMAIN responses :
         (responses[k].raised \/ responses[k].text \in {Prose, P_noTotal, P_noWeights})
           => returned[k] = None
    /\ output_file.exists
    /\ Len(output_file.data) = Len(AcceptedPositions)
    /\ \A j \in DOMAIN AcceptedPositions :
         /\ output_file.data[j] = returned[AcceptedPositions[j]]
         /\ output_file.data[j].data_id = quiz_data[AcceptedPositions[j]].data_id
         /\ output_file.data[j].tokens = quiz_data[AcceptedPositions[j]].tokens
    /\ \A k \in 1..total_items :
         (returned[k] = None /\ \A j \in 1..total_items : j # k => returned[j] # None)
           => /\ Len(output_file.data) = total_items - 1
              /\ DistinctIds =>
                   \A j \in DOMAIN output_file.data :
                     output_file.data[j].data_id # quiz_data[k].data_id

\* C2 witness: a finished batch of two different records whose first reply
\* was no JSON and whose second was accepted: one entry is saved.
C2_Witness ==
  /\ pc = "done" /\ total_items = 2 /\ DistinctIds
  /\ ~responses[1].raised /\ responses[1].text = Prose
  /\ returned[1] = None /\ returned[2] # None
  /\ Len(output_file.data) = 1

\* C4: the output file is not written while records remain (nor in a run
\* stopped inside the loop); once the last record has been processed it is
\* written exactly once, with the results list.
C4_PersistOnceAtEnd ==
  /\ pc \in {"call", "sleep", "save", "interrupted"} =>
       WritesOf(trace) = <<>> /\ output_file = NoFile
  /\ pc = "done" =>
       /\ Len(WritesOf(trace)) = 1
       /\ trace[Len(trace)].ev = "write"
       /\ idx = total_items /\ Len(returned) = total_items
       /\ output_file.exists
       /\ output_file.data = results

\* C4 witness: a batch of two ran to the end and the file was written once.
C4_Witness ==
  /\ pc = "done" /\ total_items = 2
  /\ Len(WritesOf(trace)) = 1
  /\ output_file.exists

\* C7: a sleep comes only right after the call for a record that is not the
\* last, and is followed by the call for the next record; every call but the
\* last is followed by a sleep, accepted or not; a finished batch of n >= 1
\* records has slept n-1 times, an empty one never.
C7_InterCallDelay ==
  /\ \A p \in SleepPositions :
       /\ p > 1
       /\ trace[p - 1] = Event("call", trace[p].k)
       /\ trace[p].k < total_items
       /\ p < Len(trace) => trace[p + 1] = Event("call", trace[p].k + 1)
  /\ \A p \in DOMAIN trace :
       (trace[p].ev = "call" /\ trace[p].k < total_items /\ p < Len(trace))
         => trace[p + 1].ev = "sleep"
  /\ pc = "done" =>
       Cardinality(SleepPositions) = IF total_items >= 1 THEN total_items - 1 ELSE 0

\* C7 witness: a finished batch of two whose first record was rejected and
\* was still followed by the sleep.
C7_Witness ==
  /\ pc = "done" /\ total_items = 2
  /\ returned[1] = None
  /\ trace[2].ev = "sleep"
  /\ Cardinality(SleepPositions) = 1

\* C8: the calls made so far are those of records 1, 2, ..., i, once each and
\* in that order, each made after the one before has returned; a record that
\* failed is not called again.
C8_NoRetrySequential ==
  /\ Len(CallsOf(trace)) = idx
  /\ idx <= total_items
  /\ Len(responses) = idx /\ Len(returned) = idx
  /\ \A j \in DOMAIN CallsOf(trace) : CallsOf(trace)[j].k = j

\* C8 witness: a finished batch of two in which the first call raised and
\* the second reply was no JSON; two calls were made.
C8_Witness ==
  /\ pc = "done" /\ total_items = 2
  /\ responses[1].raised
  /\ ~responses[2].raised /\ responses[2].text = Prose
  /\ Len(CallsOf(trace)) = 2

\* w occurs in text as a run of consecutive lexemes.
Occurs(w, text) ==
  \E a \in 1..Len(text) :
    a + Len(w) - 1 <= Len(text) /\ SubSeq(text, a, a + Len(w) - 1) = w

\* The text holds a fence, tagged json or not, around payload p.
ContainsFenced(text, p) == Occurs(FenceJson(p), text) \/ Occurs(FencePlain(p), text)

\* The trimmed text starts with the json fence and holds p with no '{' before
\* it and no '}' after it.
JsonFencedAround(text, p) ==
  LET t == Strip(text)
  IN /\ Len(t) >= 2 /\ t[1] = FENCE /\ t[2] = JSONTAG
     /\ \E a \in 1..Len(t) :
          /\ a + Len(p) - 1 <= Len(t)
          /\ SubSeq(t, a, a + Len(p) - 1) = p
          /\ \A j \in 1..(a - 1) : t[j] # LBRACE
          /\ \A j \in (a + Len(p))..Len(t) : t[j] # RBRACE

\* Call k was accepted with the weights and the total that payload p gives
\* when sent as it is.
SameAsUnwrapped(k, p) ==
  LET plain == calculate_attention_weights(quiz_data[k], [raised |-> FALSE, text |-> p])
  IN /\ returned[k] # None
     /\ plain # None
     /\ returned[k].attention_weights = plain.attention_weights
     /\ returned[k].total_weight = plain.total_weight

\* C5 as stated: whenever the raw text holds a fenced wrapper around a
\* payload of the expected shape, the reply is accepted with the weights and
\* total of the unwrapped payload.
C5_AnyFenceStripped ==
  \A k \in DOMAIN responses :
    ~responses[k].raised =>
      \A p \in GoodPayloads :
        ContainsFenced(responses[k].text, p) => SameAsUnwrapped(k, p)

\* C5 amended: when the trimmed raw text starts with the json fence and wraps
\* a payload of the expected shape, with no '{' before the payload and no '}'
\* after it, the reply is accepted with the weights and total of the
\* unwrapped payload; a fenced payload in a reply that does not start with
\* the json fence is rejected.
C5_JsonFenceStripped ==
  \A k \in DOMAIN responses :
    ~responses[k].raised =>
      \A p \in GoodPayloads :
        /\ JsonFencedAround(responses[k].text, p) => SameAsUnwrapped(k, p)
        /\ (/\ ContainsFenced(responses[k].text, p)
            /\ ~(LET t == Strip(responses[k].text)
                 IN Len(t) >= 2 /\ t[1] = FENCE /\ t[2] = JSONTAG))
             => returned[k] = None

\* C5 witness: a reply that is the json fence around the two-token payload
\* was accepted with two weights.
C5_Witness ==
  \E k \in DOMAIN responses :
    /\ ~responses[k].raised
    /\ responses[k].text = FenceJson(P_two)
    /\ returned[k] # None
    /\ Len(returned[k].attention_weights.items) = 2

\* attention_weights is a list of {token, weight} entries and total_weight a
\* number.
ExpectedShape(r) ==
  /\ r.attention_weights.kind = "list"
  /\ \A k \in DOMAIN r.attention_weights.items :
       /\ r.attention_weights.items[k].kind = "obj"
       /\ HasKey(r.attention_weights.items[k].members, K_token)
       /\ HasKey(r.attention_weights.items[k].members, K_weight)
  /\ r.total_weight.kind = "num"

\* C10: every record calculate_attention_weights returned and the batch took
\* has a list of {token, weight} entries as attention_weights and a number as
\* total_weight; JSON of another shape is rejected.
C10_AcceptedShape ==
  /\ \A j \in DOMAIN results : ExpectedShape(results[j])
  /\ \A k \in DOMAIN returned : returned[k] # None => ExpectedShape(returned[k])

\* ---------------------------------------------------- Flattener claims
\* The data rows of the Flattener's file.
DataRows ==
  IF ~csv_file.exists THEN <<>>
  ELSE IF with_header THEN Tail(csv_file.rows) ELSE csv_file.rows

\* The segments between the leading and the trailing '|', counted as
\* verify_format counts them.
InnerSegments(field) == Count(field, "|") - 1

\* C3: in every data row convert_to_csv wrote from the Annotator's output,
\* the tokens field and the weights field have the same number of
\* '|'-separated segments, and that number is the row's token_count.
C3_TokenWeightConsistency ==
  csv_pc = "done" =>
    \A k \in DOMAIN DataRows :
      /\ InnerSegments(DataRows[k][4]) = InnerSegments(DataRows[k][5])
      /\ InnerSegments(DataRows[k][5]) = StrToInt(DataRows[k][6])

\* C11: after convert_to_csv has returned from reading the Annotator's n
\* records, the output file holds exactly n data rows, row k being record
\* k's, after one header row when with_header is true and none otherwise;
\* it never holds only a prefix of the records.
C11_OneRowPerRecord ==
  (csv_pc = "done" /\ output_file.exists) =>
    /\ csv_file.exists
    /\ Len(csv_file.rows) = Len(output_file.data) + (IF with_header THEN 1 ELSE 0)
    /\ with_header => csv_file.rows[1] = HEADER
    /\ Len(DataRows) = Len(output_file.data)
    /\ \A k \in DOMAIN DataRows :
         /\ DataRows[k] # HEADER
         /\ DataRows[k][1] = IntToStr(output_file.data[k].data_id)
         /\ DataRows[k][6] = IntToStr(output_file.data[k].token_count)
====
